---- MODULE Spec2Model ----
(***************************************************************************)
(* A model of the hambot skill (src/__init__.py): the class-level TTLCache *)
(* holding the parsed solar XML feed, SolarInfo.get_solarxml, the          *)
(* band_info property, and the bands and vhf command handlers run as       *)
(* asyncio tasks on one event loop.                                        *)
(*                                                                         *)
(* Strings that the code formats are kept as structured values: a text     *)
(* body is a record of its header fields and its rows or lines, a table is *)
(* the rows and headers handed to tabulate.                                *)
(* cachetools.TTLCache and tabulate are libraries; the                     *)
(* cache is modelled by its documented behaviour (an item is present while *)
(* timer() < expires, __getitem__ of an expired item raises KeyError,      *)
(* __setitem__ first drops expired items), tabulate by the rows it is      *)
(* handed.                                                                 *)
(***************************************************************************)
EXTENDS Integers, Sequences, FiniteSets, TLC

(***************************************************************************)
(* Constants of the program and bounds of the model.                       *)
(***************************************************************************)
\* TTLCache(maxsize=10, ttl=60*60)
TTL == 3600

\* The clock advances in steps of half a TTL, so ages 0, TTL/2, TTL, ... occur.
HalfTTL == TTL \div 2

\* The clock is advanced at most MaxTicks times.
MaxTicks == 4

\* At most MaxFetches successful fetches (each yields a new document object).
MaxFetches == 3

\* Longest list of <band> elements, and of <phenomenon> elements, in a document.
MaxBands == 4

MaxPhen == 3

\* The concurrently running command invocations (asyncio tasks).
Tasks == {1, 2}

\* The task of the single-invocation specification.
FirstTask == CHOOSE t \in Tasks : \A u \in Tasks : t <= u

Commands == {"bands", "vhf"}

Connectors == {"matrix", "other"}

(***************************************************************************)
(* Feed documents.  A document is the <solardata> element (root[0]):       *)
(*   info    the scalar children, tag -> text ("" + None for an empty tag) *)
(*   hasCond whether <calculatedconditions> is present                     *)
(*   bands   its <band name= time=>text</band> children, in document order *)
(*   hasVhf  whether <calculatedvhfconditions> is present                  *)
(*   phen    its <phenomenon name= location=>text</phenomenon> children    *)
(***************************************************************************)
None == "<None>"

InfoA ==
    [updated |-> " 03 Nov 2026 1200 GMT", solarflux |-> "150",
     sunspots |-> "80", aindex |-> "5", kindex |-> "2"]

InfoB ==
    [updated |-> " 03 Nov 2026 1500 GMT", solarflux |-> "152",
     sunspots |-> "85", aindex |-> "7", kindex |-> "3"]

\* A feed whose <kindex> child is missing.
InfoNoK ==
    [updated |-> " 03 Nov 2026 1200 GMT", solarflux |-> "150",
     sunspots |-> "80", aindex |-> "5"]

\* A feed whose <aindex/> child is empty (tag.text is None).
InfoEmptyTag ==
    [updated |-> " 03 Nov 2026 1200 GMT", solarflux |-> "150",
     sunspots |-> "80", aindex |-> None, kindex |-> "2"]

Band(n, t, x) == [name |-> n, time |-> t, text |-> x]

Phen(n, l, x) == [name |-> n, location |-> l, text |-> x]

BandEntries ==
    {Band("80m", "day", "Good"), Band("80m", "day", "Poor"),
     Band("80m", "night", "Fair"), Band("40m", "day", "Band Closed"),
     Band("40m", "night", "Good"), Band("40m", "night", "Poor")}

PhenEntries ==
    {Phen("vhf-aurora", "northern_hemi", "Band Closed"),
     Phen("vhf aurora", "northern hemi", "High MUF"),
     Phen("E-Skip", "europe", "Band Closed"),
     Phen("E-Skip", "north_america", "50MHz ES")}

BandsA ==
    <<Band("80m", "day", "Good"), Band("80m", "night", "Fair"),
      Band("40m", "day", "Band Closed"), Band("40m", "night", "Poor")>>

BandsB ==
    <<Band("80m", "day", "Poor"), Band("80m", "night", "Fair"),
      Band("40m", "day", "Band Closed"), Band("40m", "night", "Good")>>

PhenA ==
    <<Phen("vhf-aurora", "northern_hemi", "Band Closed"),
      Phen("E-Skip", "europe", "Band Closed")>>

PhenB ==
    <<Phen("vhf-aurora", "northern_hemi", "High MUF"),
      Phen("E-Skip", "europe", "50MHz ES")>>

Doc(i, hc, bs, hv, ps) ==
    [info |-> i, hasCond |-> hc, bands |-> bs, hasVhf |-> hv, phen |-> ps]

DocA == Doc(InfoA, TRUE, BandsA, TRUE, PhenA)

DocB == Doc(InfoB, TRUE, BandsB, TRUE, PhenB)

DocNoVhf == Doc(InfoB, TRUE, BandsB, FALSE, <<>>)

DocNoCond == Doc(InfoA, FALSE, <<>>, TRUE, PhenA)

DocNoK == Doc(InfoNoK, TRUE, BandsA, TRUE, PhenA)

DocEmptyTag == Doc(InfoEmptyTag, TRUE, BandsA, TRUE, PhenA)

\* What the upstream URL serves in the concurrent specification.
Feed == {DocA, DocB, DocNoVhf}

SeqsUpTo(S, n) == UNION {[1..k -> S] : k \in 0..n}

\* The documents of the single-invocation specification.
Docs ==
    {Doc(InfoA, TRUE, bs, TRUE, PhenA) : bs \in SeqsUpTo(BandEntries, MaxBands)}
    \cup {Doc(InfoA, TRUE, BandsA, TRUE, ps) : ps \in SeqsUpTo(PhenEntries, MaxPhen)}
    \cup {DocB, DocNoVhf, DocNoCond, DocNoK, DocEmptyTag}

(***************************************************************************)
(* Python dicts keep insertion order: a dict is its keys in insertion      *)
(* order and the key -> value function.                                    *)
(***************************************************************************)
EmptyDict == [keys |-> <<>>, val |-> <<>>]

Put(f, k, v) == [x \in (DOMAIN f) \cup {k} |-> IF x = k THEN v ELSE f[x]]

Has(d, k) == k \in DOMAIN d.val

\* d[k] = v: a new key goes last, an existing key keeps its place and takes v.
SetItemFirstWins(d, k, v) ==
    IF Has(d, k) THEN d ELSE [keys |-> Append(d.keys, k), val |-> Put(d.val, k, v)]

SetItem(d, k, v) ==
    [keys |-> IF Has(d, k) THEN d.keys ELSE Append(d.keys, k),
     val |-> Put(d.val, k, v)]

\* defaultdict(dict).__getitem__: d[outer], inserting d[outer] = {} when absent.
Missing(d, outer) == IF Has(d, outer) THEN d ELSE SetItem(d, outer, EmptyDict)

\* d[outer][inner] = v: the inner dict is looked up (or created) and assigned to
\* in place.
SetNested(d, outer, inner, v) ==
    LET e == Missing(d, outer)
    IN  [e EXCEPT !.val[outer] = SetItem(@, inner, v)]

(***************************************************************************)
(* String conversions of band_info, as tables over the strings the model   *)
(* uses.                                                                   *)
(***************************************************************************)
\* name.replace("-", " ").title().replace("Vhf", "VHF")
NormName(s) ==
    CASE s = "vhf-aurora" -> "VHF Aurora"
      [] s = "vhf aurora" -> "VHF Aurora"
      [] s = "E-Skip" -> "E Skip"
      [] OTHER -> s

\* location.replace("_", " ").title()
NormLocation(s) ==
    CASE s = "northern_hemi" -> "Northern Hemi"
      [] s = "northern hemi" -> "Northern Hemi"
      [] s = "europe" -> "Europe"
      [] s = "north_america" -> "North America"
      [] OTHER -> s

\* tag.text.strip()
Strip(s) ==
    CASE s = " 03 Nov 2026 1200 GMT" -> "03 Nov 2026 1200 GMT"
      [] s = " 03 Nov 2026 1500 GMT" -> "03 Nov 2026 1500 GMT"
      [] OTHER -> s

(***************************************************************************)
(* The band_info property (lines 68-99), after solar = get_solarxml()[0].  *)
(***************************************************************************)
RECURSIVE GroupBands(_, _)
\* for band in conditions.iter("band"): bands[name][time] = band.text
GroupBands(entries, d) ==
    IF entries = <<>> THEN d
    ELSE LET b == Head(entries)
         IN  GroupBands(Tail(entries), SetNested(d, b.name, b.time, b.text))

RECURSIVE GroupVhf(_, _)
\* for band in vhfconditions.iter("phenomenon"): vhf[name][location] = band.text
GroupVhf(entries, d) ==
    IF entries = <<>> THEN d
    ELSE LET p == Head(entries)
         IN  GroupVhf(Tail(entries),
                      SetNested(d, NormName(p.name), NormLocation(p.location), p.text))

\* conditions.get(k): None for a missing key
Get(d, k) == IF Has(d, k) THEN d.val[k] ELSE None

RowsOf(bands) ==
    [i \in 1..Len(bands.keys) |->
        LET conditions == bands.val[bands.keys[i]]
        IN  <<bands.keys[i], Get(conditions, "day"), Get(conditions, "night")>>]

TableRowsGet(bands) == [ok |-> TRUE, rows |-> RowsOf(bands)]

\* band_table["tabular_data"]: one row [band, conditions["day"], conditions["night"]]
\* per key of bands, in its order; a missing "day" or "night" raises KeyError.
TableRows(bands) ==
    [ok |-> \A n \in DOMAIN bands.val :
                Has(bands.val[n], "day") /\ Has(bands.val[n], "night"),
     rows |-> RowsOf(bands)]

Headers == <<"Band", "Day", "Night">>

NoTable == [tabular_data |-> <<>>, headers |-> <<>>]

Failed(e) ==
    [ok |-> FALSE, err |-> e, bands |-> NoTable, vhf |-> EmptyDict, info |-> <<>>]

band_info(solar) ==
    IF ~solar.hasCond
    THEN Failed("AttributeError")       \* None.iter
    ELSE LET bands == GroupBands(solar.bands, EmptyDict)
             table == TableRows(bands)
         IN  IF ~table.ok
             THEN Failed("KeyError")    \* conditions["day"], conditions["night"]
             ELSE IF ~solar.hasVhf
             THEN Failed("AttributeError")
             ELSE IF \E tag \in DOMAIN solar.info : solar.info[tag] = None
             THEN Failed("AttributeError")  \* None.strip
             ELSE [ok |-> TRUE, err |-> "",
                   bands |-> [tabular_data |-> table.rows, headers |-> Headers],
                   vhf |-> GroupVhf(solar.phen, EmptyDict),
                   info |-> [tag \in DOMAIN solar.info |-> Strip(solar.info[tag])]]

(***************************************************************************)
(* Rendering in the bands handler (lines 103-126).                         *)
(***************************************************************************)
TemplateKeys == {"updated", "solarflux", "sunspots", "aindex", "kindex"}

\* colour = {"Good": ..., "Poor": ..., "Fair": ...}
colour ==
    [r \in {"Good", "Poor", "Fair"} |->
        CASE r = "Good" -> " data-mx-color='#00cc00'"
          [] r = "Poor" -> " data-mx-color='#cc0000'"
          [] r = "Fair" -> " data-mx-color='#ffcc00'"]

\* f"<font{colour[r]}>{r}</font>", for the keys of colour
Font(r) ==
    CASE colour[r] = " data-mx-color='#00cc00'" /\ r = "Good" ->
            "<font data-mx-color='#00cc00'>Good</font>"
      [] colour[r] = " data-mx-color='#cc0000'" /\ r = "Poor" ->
            "<font data-mx-color='#cc0000'>Poor</font>"
      [] colour[r] = " data-mx-color='#ffcc00'" /\ r = "Fair" ->
            "<font data-mx-color='#ffcc00'>Fair</font>"

CellOnlyGood(r) == IF r = "Good" THEN Font(r) ELSE r

\* f"<font{colour[r]}>{r}</font>" if r in colour else r
Cell(r) == IF r \in DOMAIN colour THEN Font(r) ELSE r

\* new_rows
Colourise(rows) == [i \in DOMAIN rows |-> [j \in DOMAIN rows[i] |-> Cell(rows[i][j])]]

AliasedAfterColourise(table, new_rows) == [table EXCEPT !.tabular_data = new_rows]

\* band_info["bands"] after html_rows = copy(...); html_rows["tabular_data"] = new_rows:
\* html_rows is another dict, so the assignment leaves the original's rows alone.
BandsAfterColourise(table, new_rows) == table

\* The plain-text body: the formatted template and the table handed to tabulate.
BandsBody(bi) ==
    [kind |-> "bands", header |-> bi.info,
     table |-> BandsAfterColourise(bi.bands, Colourise(bi.bands.tabular_data))]

\* The formatted body: <h4>..</h4>..<br /> and the unsafehtml table of new_rows.
BandsHtml(bi) ==
    [kind |-> "bands", header |-> bi.info,
     table |-> [tabular_data |-> Colourise(bi.bands.tabular_data),
                headers |-> bi.bands.headers]]

(***************************************************************************)
(* Rendering in the vhf handler (lines 131-142).                           *)
(***************************************************************************)
RECURSIVE RegionLines(_, _)
RegionLines(info, regions) ==
    IF regions = <<>> THEN <<>>
    ELSE <<[kind |-> "region", name |-> Head(regions), status |-> info.val[Head(regions)]]>>
         \o RegionLines(info, Tail(regions))

RECURSIVE PropLines(_, _)
\* for prop, info in vhf_info.items(): the heading, then a line per region
PropLines(vhf_info, props) ==
    IF props = <<>> THEN <<>>
    ELSE <<[kind |-> "prop", name |-> Head(props), status |-> ""]>>
         \o RegionLines(vhf_info.val[Head(props)], vhf_info.val[Head(props)].keys)
         \o PropLines(vhf_info, Tail(props))

VhfBody(vhf_info, updated) ==
    [kind |-> "vhf", updated |-> updated, lines |-> PropLines(vhf_info, vhf_info.keys)]

\* rich_response(message, body, formatted_body)
NoHtml == [kind |-> "none"]

rich_response(connector, body, formatted_body) ==
    IF connector = "matrix"
    THEN [event |-> "m.room.message", body |-> body, formatted_body |-> formatted_body]
    ELSE [event |-> "Message", body |-> body, formatted_body |-> NoHtml]

(***************************************************************************)
(* The class-level cache: TTLCache(maxsize=10, ttl=60*60), used with the   *)
(* one key "solarxml".  A stored document object is [id, content]: each    *)
(* successful fetch parses a new object.                                   *)
(***************************************************************************)
NoContent == Doc(<<>>, FALSE, <<>>, FALSE, <<>>)

NoDoc == [id |-> 0, content |-> NoContent]

EmptyCache == [present |-> FALSE, value |-> NoDoc, expires |-> 0]

ContainsInclusive(c, time) == c.present /\ time <= c.expires

\* "solarxml" in self.cache: the item is there and timer() < its expiry.
Contains(c, time) == c.present /\ time < c.expires

\* self.cache["solarxml"] = root: expired items are dropped, the new one expires
\* ttl after the store.
CacheSet(c, root, time) == [present |-> TRUE, value |-> root, expires |-> time + TTL]

OnFetchErrorPoison(c, time) == CacheSet(c, NoDoc, time)

\* The cache after urlopen or ET.fromstring raised: line 65 was not reached.
OnFetchError(c, time) == c

FetchErrors == {"URLError", "ParseError"}

(***************************************************************************)
(* The event loop and the command invocations.                             *)
(***************************************************************************)
NoEvent == [event |-> "none", body |-> NoHtml, formatted_body |-> NoHtml]

IdleTask ==
    [pc |-> "idle", cmd |-> "", ev |-> 0, hit |-> FALSE, nfetch |-> 0,
     total |-> 0, root |-> NoDoc, got |-> <<>>, infos |-> <<>>, err |-> "",
     line |-> 0, out |-> NoEvent, snap |-> EmptyCache]

\* Program positions at which a coroutine has handed control back to the loop.
Suspended == {"idle", "awaiting", "raised"}

OwnerYieldsInFetch(t, nextpc) == IF nextpc \in Suspended \cup {"fetching"} THEN 0 ELSE t

\* Who holds the event loop after task t moved to nextpc: the handlers' only
\* await is message.respond; urlopen blocks without yielding.
Owner(t, nextpc) == IF nextpc \in Suspended THEN 0 ELSE t

\* band_info is evaluated once by bands (line 103), three times by vhf
\* (lines 131, 132, 138).
Evals(c) == IF c = "vhf" THEN 3 ELSE 1

VARIABLES
    now,        \* the cache's timer (time.monotonic), in seconds
    fetches,    \* number of documents parsed so far
    cache,      \* SolarInfo.cache
    stored,     \* history: the document last stored and when
    feed,       \* the documents the upstream URL may serve
    running,    \* the task holding the event loop, 0 when the loop is free
    task        \* per invocation: position and locals

vars == <<now, fetches, cache, stored, feed, running, task>>

Last(s) == s[Len(s)]

Goto(t, nextpc, changes) ==
    /\ task' = [task EXCEPT ![t] = [changes EXCEPT !.pc = nextpc]]
    /\ running' = Owner(t, nextpc)

\* An exception raised at a line leaves the handler: nothing catches it, the
\* coroutine ends without reaching message.respond.
Raise(t, e, line) == Goto(t, "raised", [task[t] EXCEPT !.err = e, !.line = line])

Scheduled(t) == running \in {0, t}

\* A message matching ^!bands or ^!vhf arrives and its handler starts.
Dispatch(t, c) ==
    /\ Scheduled(t)
    /\ task[t].pc = "idle"
    /\ Goto(t, "check", [IdleTask EXCEPT !.cmd = c])
    /\ UNCHANGED <<now, fetches, cache, stored, feed>>

\* get_solarxml, line 62
Check(t) ==
    /\ Scheduled(t)
    /\ task[t].pc = "check"
    /\ LET h == Contains(cache, now)
       IN  Goto(t, IF h THEN "read" ELSE "fetch",
                [task[t] EXCEPT !.hit = h, !.nfetch = 0, !.snap = cache])
    /\ UNCHANGED <<now, fetches, cache, stored, feed>>

\* line 63: urlopen is called
FetchBegin(t) ==
    /\ Scheduled(t)
    /\ task[t].pc = "fetch"
    /\ Goto(t, "fetching", [task[t] EXCEPT !.nfetch = @ + 1, !.total = @ + 1])
    /\ UNCHANGED <<now, fetches, cache, stored, feed>>

\* lines 63-64: urlopen or ET.fromstring raises, or root is parsed
FetchEnd(t) ==
    /\ Scheduled(t)
    /\ task[t].pc = "fetching"
    /\ \/ \E e \in FetchErrors :
            /\ Raise(t, e, IF e = "URLError" THEN 63 ELSE 64)
            /\ cache' = OnFetchError(cache, now)
            /\ UNCHANGED <<now, fetches, stored, feed>>
       \/ \E d \in feed :
            /\ fetches < MaxFetches
            /\ fetches' = fetches + 1
            /\ Goto(t, "store", [task[t] EXCEPT !.root = [id |-> fetches + 1, content |-> d]])
            /\ UNCHANGED <<now, cache, stored, feed>>

\* line 65
Store(t) ==
    /\ Scheduled(t)
    /\ task[t].pc = "store"
    /\ cache' = CacheSet(cache, task[t].root, now)
    /\ stored' = [doc |-> task[t].root, at |-> now]
    /\ Goto(t, "read", task[t])
    /\ UNCHANGED <<now, fetches, feed>>

\* line 66: TTLCache.__getitem__ raises KeyError for an expired item
Read(t) ==
    /\ Scheduled(t)
    /\ task[t].pc = "read"
    /\ IF Contains(cache, now)
       THEN Goto(t, "extract", [task[t] EXCEPT !.got = Append(@, cache.value)])
       ELSE Raise(t, "KeyError", 66)
    /\ UNCHANGED <<now, fetches, cache, stored, feed>>

\* lines 70-99, and the ['info']['updated'] lookups of lines 132 and 138
Extract(t) ==
    /\ Scheduled(t)
    /\ task[t].pc = "extract"
    /\ LET bi == band_info(Last(task[t].got).content)
           n == task[t].ev + 1
       IN  IF ~bi.ok
           THEN Raise(t, bi.err, 70)
           ELSE IF task[t].cmd = "vhf" /\ n > 1 /\ "updated" \notin DOMAIN bi.info
           THEN Raise(t, "KeyError", IF n = 2 THEN 132 ELSE 138)
           ELSE Goto(t, IF n < Evals(task[t].cmd) THEN "check" ELSE "respond",
                     [task[t] EXCEPT !.ev = n, !.infos = Append(@, bi)])
    /\ UNCHANGED <<now, fetches, cache, stored, feed>>

\* bands, lines 104-127
RespondBands(t) ==
    /\ Scheduled(t)
    /\ task[t].pc = "respond"
    /\ task[t].cmd = "bands"
    /\ \E connector \in Connectors :
         LET bi == task[t].infos[1]
         IN  IF ~(TemplateKeys \subseteq DOMAIN bi.info)
             THEN Raise(t, "KeyError", 106) \* template.format(**band_info["info"])
             ELSE Goto(t, "awaiting",
                       [task[t] EXCEPT
                          !.out = rich_response(connector, BandsBody(bi), BandsHtml(bi))])
    /\ UNCHANGED <<now, fetches, cache, stored, feed>>

\* vhf, lines 133-149: vhf_info is from the first evaluation, the text header
\* from the second, the HTML header from the third
RespondVhf(t) ==
    /\ Scheduled(t)
    /\ task[t].pc = "respond"
    /\ task[t].cmd = "vhf"
    /\ \E connector \in Connectors :
         LET vhf_info == task[t].infos[1].vhf
         IN  Goto(t, "awaiting",
                  [task[t] EXCEPT
                     !.out = rich_response(connector,
                                VhfBody(vhf_info, task[t].infos[2].info["updated"]),
                                VhfBody(vhf_info, task[t].infos[3].info["updated"]))])
    /\ UNCHANGED <<now, fetches, cache, stored, feed>>

\* message.respond completes and the handler returns, or the raised exception
\* is logged by the framework: the invocation is over.
Finish(t) ==
    /\ Scheduled(t)
    /\ task[t].pc \in {"awaiting", "raised"}
    /\ Goto(t, "idle", IdleTask)
    /\ UNCHANGED <<now, fetches, cache, stored, feed>>

\* Time passes, at any point of any handler.
Tick ==
    /\ now < MaxTicks * HalfTTL
    /\ now' = now + HalfTTL
    /\ UNCHANGED <<fetches, cache, stored, feed, running, task>>

Step(t) ==
    \/ \E c \in Commands : Dispatch(t, c)
    \/ Check(t)
    \/ FetchBegin(t)
    \/ FetchEnd(t)
    \/ Store(t)
    \/ Read(t)
    \/ Extract(t)
    \/ RespondBands(t)
    \/ RespondVhf(t)
    \/ Finish(t)

Init ==
    /\ now = 0
    /\ fetches = 0
    /\ cache = EmptyCache
    /\ stored = [doc |-> NoDoc, at |-> 0]
    /\ feed = Feed
    /\ running = 0
    /\ task = [t \in Tasks |-> IdleTask]

Next == Tick \/ \E t \in Tasks : Step(t)

\* Concurrent invocations, a moving clock, a feed that changes between fetches.
Spec == Init /\ [][Next]_vars

InitExtract ==
    /\ now = 0
    /\ fetches = 0
    /\ cache = EmptyCache
    /\ stored = [doc |-> NoDoc, at |-> 0]
    /\ feed \in {{d} : d \in Docs}
    /\ running = 0
    /\ task = [t \in Tasks |-> IdleTask]

NextExtract == Step(FirstTask)

\* One invocation at a time on one document drawn from Docs, the clock still.
SpecExtract == InitExtract /\ [][NextExtract]_vars

(***************************************************************************)
(* Properties.                                                             *)
(***************************************************************************)
Max(S) == CHOOSE m \in S : \A x \in S : x <= m

Min(S) == CHOOSE m \in S : \A x \in S : m <= x

Range(f) == {f[i] : i \in DOMAIN f}

NoRepeats(seq) == \A i, j \in DOMAIN seq : i # j => seq[i] # seq[j]

\* The cache entry rule of the data model: valid while now - fetchedAt < ttl.
Fresh == stored.doc # NoDoc /\ now - stored.at < TTL

\* C1: with fetches succeeding, a get_solarxml call made while the stored entry
\* is younger than the TTL takes no fetch and returns the very document object
\* the last fetch stored; a call made when none is stored or it has expired
\* takes exactly one fetch, stores its result and returns it.
C1_CacheContract ==
    [][\A t \in Tasks :
        LET c == task[t]
            c2 == task'[t]
        IN  /\ (c.pc = "check" /\ c2.pc # "check") =>
                  /\ c2.hit <=> Fresh
                  /\ c2.nfetch = 0
                  /\ c2.pc = IF Fresh THEN "read" ELSE "fetch"
            /\ (c.pc = "store" /\ c2.pc # "store") =>
                  /\ c.nfetch = 1
                  /\ cache'.value = c.root
                  /\ stored'.doc = c.root
            /\ (c.pc = "read" /\ c2.pc = "extract") =>
                  /\ c.nfetch = IF c.hit THEN 0 ELSE 1
                  /\ Last(c2.got) = stored.doc
                  /\ ~c.hit => Last(c2.got) = c.root
            /\ (c.pc = "read" /\ c.hit) => c.nfetch = 0]_vars

\* A second document was fetched after the first expired, and a later call hit
\* the cache and returned that second object.
C1_Witness ==
    \E t \in Tasks :
        /\ task[t].pc = "extract"
        /\ task[t].hit
        /\ stored.doc.id = 2
        /\ Last(task[t].got).id = 2

\* C2: when the fetch-and-parse step fails, the error reaches the caller and
\* the cache is exactly as it was when the call began, with no valid entry, so
\* the next call fetches again.
C2_FailedFetchLeavesCache ==
    [][\A t \in Tasks :
        (task[t].pc = "fetching" /\ task'[t].pc # "fetching" /\ task'[t].pc # "store") =>
            /\ task'[t].pc = "raised"
            /\ task'[t].err \in FetchErrors
            /\ cache' = task[t].snap
            /\ (task[t].snap = EmptyCache => cache' = EmptyCache)
            /\ ~Contains(cache', now')]_vars

\* A fetch failed while an expired entry was still held by the cache.
C2_Witness ==
    \E t \in Tasks :
        /\ task[t].pc = "raised"
        /\ task[t].err \in FetchErrors
        /\ cache.present

\* C3: an invocation that hits a fetch error or a schema error still calls
\* message.respond once, with a failure text.
C3_FailureReported ==
    \A t \in Tasks : task[t].pc = "raised" => task[t].out # NoEvent

\* A band that has an entry for only one of day and night.
HalfBand(d) ==
    \E i \in DOMAIN d.bands :
        \E tm \in {"day", "night"} :
            \A j \in DOMAIN d.bands :
                ~(d.bands[j].name = d.bands[i].name /\ d.bands[j].time = tm)

Partial(d) == ~d.hasCond \/ ~d.hasVhf \/ HalfBand(d)

\* C4: for a document without calculatedconditions or calculatedvhfconditions,
\* or with a band that has only one of day and night, band_info raises and
\* returns no mapping, and no report is delivered from such a document.
C4_AllOrNothing ==
    \A t \in Tasks :
        LET c == task[t]
        IN  /\ \A i \in DOMAIN c.infos : c.infos[i].ok /\ ~Partial(c.got[i].content)
            /\ c.out # NoEvent => \A i \in DOMAIN c.got : ~Partial(c.got[i].content)
            /\ (c.got # <<>> /\ Partial(Last(c.got).content) /\ c.pc # "extract") =>
                  /\ c.pc = "raised"
                  /\ c.line = 70
                  /\ c.out = NoEvent
                  /\ Len(c.infos) = Len(c.got) - 1

\* band_info raised on a document that has both sections but a band with only
\* one of day and night.
C4_Witness ==
    \E t \in Tasks :
        LET c == task[t]
        IN  /\ c.pc = "raised"
            /\ c.line = 70
            /\ c.got # <<>>
            /\ Last(c.got).content.hasCond
            /\ Last(c.got).content.hasVhf
            /\ HalfBand(Last(c.got).content)

\* The text of the last <band> in document order with this name and time.
LastBandText(d, n, tm) ==
    d.bands[Max({i \in DOMAIN d.bands : d.bands[i].name = n /\ d.bands[i].time = tm})].text

\* The text of the last <phenomenon> displayed under this name and location.
LastPhenText(d, n, l) ==
    d.phen[Max({i \in DOMAIN d.phen :
                   NormName(d.phen[i].name) = n /\ NormLocation(d.phen[i].location) = l})].text

Column(tm) == IF tm = "day" THEN 2 ELSE 3

\* C5: band_info holds every (band name, time) pair once, with the text of the
\* last band entry of that name and time, and every displayed (phenomenon,
\* location) pair once, with the text of the last entry displayed under it.
C5_LastWriteWins ==
    \A t \in Tasks :
        \A k \in DOMAIN task[t].infos :
            LET d == task[t].got[k].content
                bi == task[t].infos[k]
                rows == bi.bands.tabular_data
            IN  /\ NoRepeats([i \in DOMAIN rows |-> rows[i][1]])
                /\ \A e \in Range(d.bands) :
                      \E i \in DOMAIN rows :
                          /\ rows[i][1] = e.name
                          /\ rows[i][Column(e.time)] = LastBandText(d, e.name, e.time)
                /\ NoRepeats(bi.vhf.keys)
                /\ \A n \in Range(bi.vhf.keys) : NoRepeats(bi.vhf.val[n].keys)
                /\ \A p \in Range(d.phen) :
                      LET n == NormName(p.name)
                          l == NormLocation(p.location)
                      IN  /\ n \in Range(bi.vhf.keys)
                          /\ l \in Range(bi.vhf.val[n].keys)
                          /\ bi.vhf.val[n].val[l] = LastPhenText(d, n, l)

\* band_info succeeded on a document that repeats a (name, time) pair with
\* another text.
C5_Witness ==
    \E t \in Tasks :
        /\ task[t].infos # <<>>
        /\ LET d == task[t].got[1].content
           IN  \E i, j \in DOMAIN d.bands :
                   /\ i < j
                   /\ d.bands[i].name = d.bands[j].name
                   /\ d.bands[i].time = d.bands[j].time
                   /\ d.bands[i].text # d.bands[j].text

Delivered(t, c) == task[t].cmd = c /\ task[t].pc = "awaiting"

\* C6: in the HTML body of bands, a cell whose text is exactly Good, Fair or
\* Poor is wrapped in a font element with that label's colour, and any other
\* cell is emitted as it is.
C6_ColourMapping ==
    \A t \in Tasks :
        (Delivered(t, "bands") /\ task[t].out.event = "m.room.message") =>
            LET rows == task[t].infos[1].bands.tabular_data
                html == task[t].out.formatted_body.table.tabular_data
            IN  /\ DOMAIN html = DOMAIN rows
                /\ \A i \in DOMAIN rows :
                      /\ DOMAIN html[i] = DOMAIN rows[i]
                      /\ \A j \in DOMAIN rows[i] :
                            LET r == rows[i][j]
                            IN  html[i][j] =
                                   CASE r = "Good" -> "<font data-mx-color='#00cc00'>Good</font>"
                                     [] r = "Fair" -> "<font data-mx-color='#ffcc00'>Fair</font>"
                                     [] r = "Poor" -> "<font data-mx-color='#cc0000'>Poor</font>"
                                     [] OTHER -> r

\* A delivered HTML table with a Good, a Fair, a Poor and another cell.
C6_Witness ==
    \E t \in Tasks :
        /\ Delivered(t, "bands")
        /\ task[t].out.event = "m.room.message"
        /\ LET html == task[t].out.formatted_body.table.tabular_data
               cells == {html[i][j] : i \in DOMAIN html, j \in 2..3}
           IN  {"<font data-mx-color='#00cc00'>Good</font>",
                "<font data-mx-color='#ffcc00'>Fair</font>",
                "<font data-mx-color='#cc0000'>Poor</font>", "Band Closed"} \subseteq cells

FirstIndex(d, n) == Min({i \in DOMAIN d.bands : d.bands[i].name = n})

\* C7: the plain-text table of bands has one row [band, day, night] per
\* distinct band name of the document, in the order the names first occur,
\* with the raw feed strings as labels.
C7_TextRows ==
    \A t \in Tasks :
        Delivered(t, "bands") =>
            LET d == task[t].got[1].content
                table == task[t].out.body.table
                rows == table.tabular_data
            IN  /\ table.headers = <<"Band", "Day", "Night">>
                /\ {rows[i][1] : i \in DOMAIN rows} = {e.name : e \in Range(d.bands)}
                /\ Len(rows) = Cardinality({e.name : e \in Range(d.bands)})
                /\ \A i, j \in DOMAIN rows :
                      i < j => FirstIndex(d, rows[i][1]) < FirstIndex(d, rows[j][1])
                /\ \A i \in DOMAIN rows :
                      rows[i] = <<rows[i][1], LastBandText(d, rows[i][1], "day"),
                                  LastBandText(d, rows[i][1], "night")>>

\* A delivered text table of two bands whose entries interleave in the
\* document, with a label that the HTML table colours.
C7_Witness ==
    \E t \in Tasks :
        /\ Delivered(t, "bands")
        /\ LET d == task[t].got[1].content
               rows == task[t].out.body.table.tabular_data
           IN  /\ Len(rows) = 2
               /\ \E i \in DOMAIN d.bands :
                     /\ i + 1 \in DOMAIN d.bands
                     /\ d.bands[i].name = rows[2][1]
                     /\ d.bands[i + 1].name = rows[1][1]
               /\ rows[1][2] = "Good"

InHandler == {"check", "fetch", "fetching", "store", "read", "extract", "respond"}

\* C8: with invocations running as tasks on one loop and sharing the cache, no
\* two fetches overlap, a fetch is only under way while the cache holds no
\* valid entry, and from the cache check to the response an invocation runs
\* without another one taking a step in between.
C8_NoOverlap ==
    /\ Cardinality({t \in Tasks : task[t].pc = "fetching"}) <= 1
    /\ \A t \in Tasks :
          /\ task[t].pc \in {"fetch", "fetching", "store"} => ~Contains(cache, now)
          /\ task[t].pc \in InHandler =>
                /\ running = t
                /\ \A u \in Tasks \ {t} : task[u].pc \in Suspended

\* One invocation is suspended in message.respond while another is fetching.
C8_Witness ==
    \E t, u \in Tasks :
        /\ task[t].pc = "awaiting"
        /\ task[u].pc = "fetching"

\* C9: a get_solarxml call that found a valid entry at the membership check
\* returns that entry: the read-back of line 66 raises nothing, also when the
\* clock passes the entry's expiry between the check and the read.
C9_ReadBackNeverFails ==
    \A t \in Tasks :
        (task[t].pc = "raised" /\ task[t].hit) => task[t].line \notin 61..66

\* C10: a delivered vhf report takes its statuses and both of its headers from
\* one document, and its invocation made at most one fetch.
C10_OneDocumentPerReport ==
    \A t \in Tasks :
        Delivered(t, "vhf") =>
            /\ task[t].got[1] = task[t].got[2]
            /\ task[t].got[2] = task[t].got[3]
            /\ task[t].out.event = "m.room.message" =>
                  task[t].out.body.updated = task[t].out.formatted_body.updated
            /\ task[t].total <= 1

====
